---- MODULE Spec2Model ----
(***************************************************************************)
(* HashCache<K, V, S, F> of src/src/lib.rs: a HashMap of PinBox<V> behind  *)
(* an RwLock.  get takes the read lock; get_or_insert and                  *)
(* get_or_insert_with first call get and, on a miss, take the write lock   *)
(* and run HashMap::entry(key).or_insert_with_key(provider).  References   *)
(* returned to callers point into the PinBox heap allocations and outlive  *)
(* the lock guards.  clear takes &mut self.                                *)
(*                                                                         *)
(* Threads share one cache.  Each thread runs one operation at a time; an  *)
(* operation is split at every point where another thread can interleave   *)
(* (lock acquisition, the read-locked lookup, the entry lookup under the   *)
(* write lock, the provider call, the insert).                             *)
(***************************************************************************)
EXTENDS Integers, FiniteSets, TLC

\* ------------------------------------------------------------------ bounds
MaxThread == 2
MaxKey == 2
MaxVal == 2
MaxAddr == 2

Threads == 1..MaxThread
\* borrowed key forms (&Q) handed to the operations
BorrowedKeys == 1..MaxKey
\* values a provider can produce
Values == 1..MaxVal
\* heap addresses Box::new can return; allocation never fails (an allocation
\* failure aborts the process) as long as there is an address per key
Addrs == 1..MaxAddr

\* ------------------------------------------------------------ pure helpers
\* the null pointer, which NonNull::new rejects
NoPtr == 0
\* content of a heap address that holds no live allocation
Free == 0
NoThread == 0
NoKey == [owned |-> 0]

\* Q::to_owned: the owned key K made from the borrowed form
to_owned(q) == [owned |-> q]
\* K::borrow: the borrowed form of an owned key
Borrow(k) == k.owned

OwnedKeys == {to_owned(q) : q \in BorrowedKeys}

\* HashMap::get(&Q): the PinBox stored under the key whose borrowed form is q
MapGetMiss(m, q) == NoPtr
MapGet(m, q) ==
    IF \E k \in DOMAIN m : Borrow(k) = q /\ m[k] # NoPtr
    THEN m[CHOOSE k \in DOMAIN m : Borrow(k) = q /\ m[k] # NoPtr]
    ELSE NoPtr

\* HashMap::entry(key): Occupied when the owned key is in the table
OccupiedNever(m, k) == FALSE
Occupied(m, k) == m[k] # NoPtr

\* RwLock::read().unwrap_or_else(|e| e.into_inner()): the guard, poisoned or not
arena_unwrap(p) == IF p THEN "panic" ELSE "guard"
arena(p) == "guard"

\* RwLock::write().unwrap_or_else(|e| e.into_inner())
arena_mut(p) == "guard"

\* RwLock::get_mut().unwrap_or_else(|e| e.into_inner()) in clear
get_mut(p) == "guard"

\* PinBox::as_ref: the reference is the address recorded at construction
as_ref(k, p, h) == [key |-> k, addr |-> p, val |-> h[p]]

NoRef == [key |-> NoKey, addr |-> NoPtr, val |-> Free]

Ops == {"get", "get_or_insert", "get_or_insert_with"}
InsertOps == {"get_or_insert", "get_or_insert_with"}

\* what an operation handed back to its caller
Ret(kind, r) == [kind |-> kind, ref |-> r]
NoRet == Ret("none", NoRef)

VARIABLES
    alive,     \* the cache has not been dropped
    arena_map, \* HashCache::arena: owned key -> PinBox.ptr (NoPtr: key absent)
    heap,      \* address -> value of the live Box there, or Free
    poisoned,  \* the RwLock's poison flag
    readers,   \* threads holding an RwLockReadGuard
    writer,    \* thread holding the RwLockWriteGuard, or NoThread
    pc,        \* where each thread is
    op,        \* the operation the thread is in, or last ran
    key,       \* its key argument (borrowed form)
    kown,      \* local `key` of lines 131/151: the owned key, or NoKey
    val,       \* local `v` of lines 134/154: the provider's result, or Free
    ret,       \* what the thread's last operation returned
    held,      \* references the thread still holds (&V borrowed from &self)
    had,       \* the reference for `key` the caller already held when it called
    nprov,     \* provider invocations made by the thread's current/last call
    stored,    \* per key: every box stored or returned since the last clear
    cleared   \* keys emptied by the last clear and not inserted since

vars == <<alive, arena_map, heap, poisoned, readers, writer, pc, op, key, kown,
          val, ret, held, had, nprov, stored, cleared>>

shared == <<alive, arena_map, heap, stored, cleared>>

\* HashCache::with_config: an empty table behind a fresh lock
Init ==
    /\ alive = TRUE
    /\ arena_map = [k \in OwnedKeys |-> NoPtr]
    /\ heap = [a \in Addrs |-> Free]
    /\ poisoned = FALSE
    /\ readers = {}
    /\ writer = NoThread
    /\ pc = [t \in Threads |-> "idle"]
    /\ op = [t \in Threads |-> "get"]
    /\ key = [t \in Threads |-> 1]
    /\ kown = [t \in Threads |-> NoKey]
    /\ val = [t \in Threads |-> Free]
    /\ ret = [t \in Threads |-> NoRet]
    /\ held = [t \in Threads |-> {}]
    /\ had = [t \in Threads |-> NoRef]
    /\ nprov = [t \in Threads |-> 0]
    /\ stored = [k \in OwnedKeys |-> {}]
    /\ cleared = {}

\* the reference for key q among rs, or NoRef
HeldFor(rs, q) ==
    IF \E r \in rs : Borrow(r.key) = q
    THEN CHOOSE r \in rs : Borrow(r.key) = q
    ELSE NoRef

\* a thread enters get / get_or_insert / get_or_insert_with with key q
Call(t, o, q) ==
    /\ alive
    /\ pc[t] = "idle"
    /\ pc' = [pc EXCEPT ![t] = "rdlock"]
    /\ op' = [op EXCEPT ![t] = o]
    /\ key' = [key EXCEPT ![t] = q]
    /\ ret' = [ret EXCEPT ![t] = NoRet]
    /\ had' = [had EXCEPT ![t] = HeldFor(held[t], q)]
    /\ nprov' = [nprov EXCEPT ![t] = 0]
    /\ UNCHANGED <<shared, poisoned, readers, writer, kown, val, held>>

\* RwLock::read is granted when no thread holds the write guard (w: the
\* writer, rs: the readers)
CanReadExclusive(w, rs) == w = NoThread /\ rs = {}
CanReadReentrant(w, rs) == TRUE
CanRead(w, rs) == w = NoThread

\* RwLock::write is granted when no thread holds any guard
CanWriteShared(w, rs) == w = NoThread
CanWrite(w, rs) == w = NoThread /\ rs = {}

\* get, line 115: self.arena() returns once no writer holds the lock
AcquireRead(t) ==
    /\ pc[t] = "rdlock"
    /\ CanRead(writer, readers)
    /\ IF arena(poisoned) = "guard"
       THEN /\ readers' = readers \cup {t}
            /\ pc' = [pc EXCEPT ![t] = "reading"]
            /\ ret' = ret
       ELSE /\ readers' = readers
            /\ pc' = [pc EXCEPT ![t] = "idle"]
            /\ ret' = [ret EXCEPT ![t] = Ret("poison", NoRef)]
    /\ UNCHANGED <<shared, poisoned, writer, op, key, kown, val, held, had,
                   nprov>>

\* the read guard of get is dropped when get returns (before line 127/147 goes on)
ReleaseReadKept(rs, t, o, hit) == IF hit \/ o = "get" THEN rs \ {t} ELSE rs
ReleaseReadHeld(rs, t, o, hit) == IF hit THEN rs ELSE rs \ {t}
ReleaseRead(rs, t, o, hit) == rs \ {t}

\* get, lines 116-118 with the key present: Some(value.as_ref());
\* get_or_insert(_with), lines 127-128 / 147-148: return v
Hit(t) ==
    /\ pc[t] = "reading"
    /\ MapGet(arena_map, key[t]) # NoPtr
    /\ LET r == as_ref(to_owned(key[t]), MapGet(arena_map, key[t]), heap) IN
       /\ ret' = [ret EXCEPT ![t] = Ret("hit", r)]
       /\ held' = [held EXCEPT ![t] = @ \cup {r}]
       /\ stored' = [stored EXCEPT ![r.key] = @ \cup {r.addr}]
    /\ readers' = ReleaseRead(readers, t, op[t], TRUE)
    /\ pc' = [pc EXCEPT ![t] = "idle"]
    /\ UNCHANGED <<alive, arena_map, heap, cleared, poisoned, writer, op, key,
                   kown, val, had, nprov>>

\* get, line 116 with the key absent: None
GetMiss(t) ==
    /\ pc[t] = "reading"
    /\ op[t] = "get"
    /\ MapGet(arena_map, key[t]) = NoPtr
    /\ ret' = [ret EXCEPT ![t] = Ret("absent", NoRef)]
    /\ readers' = ReleaseRead(readers, t, op[t], FALSE)
    /\ pc' = [pc EXCEPT ![t] = "idle"]
    /\ UNCHANGED <<shared, poisoned, writer, op, key, kown, val, held, had,
                   nprov>>

\* get_or_insert(_with), lines 127-131 / 147-151: get missed, key.to_owned()
InsertMiss(t) ==
    /\ pc[t] = "reading"
    /\ op[t] \in InsertOps
    /\ MapGet(arena_map, key[t]) = NoPtr
    /\ readers' = ReleaseRead(readers, t, op[t], FALSE)
    /\ kown' = [kown EXCEPT ![t] = to_owned(key[t])]
    /\ pc' = [pc EXCEPT ![t] = "wrlock"]
    /\ UNCHANGED <<shared, poisoned, writer, op, key, val, ret, held, had,
                   nprov>>

\* lines 132 / 152: self.arena_mut() returns once nobody holds the lock
AcquireWrite(t) ==
    /\ pc[t] = "wrlock"
    /\ CanWrite(writer, readers)
    /\ IF arena_mut(poisoned) = "guard"
       THEN /\ writer' = t
            /\ pc' = [pc EXCEPT ![t] = "entry"]
            /\ ret' = ret
            /\ kown' = kown
       ELSE /\ writer' = writer
            /\ pc' = [pc EXCEPT ![t] = "idle"]
            /\ ret' = [ret EXCEPT ![t] = Ret("poison", NoRef)]
            /\ kown' = [kown EXCEPT ![t] = NoKey]
    /\ UNCHANGED <<shared, poisoned, readers, op, key, val, held, had, nprov>>

\* lines 133 / 153, Entry::Occupied: or_insert_with_key returns the stored
\* PinBox without calling the closure; lines 138 / 158 return its reference
EntryOccupied(t) ==
    /\ pc[t] = "entry"
    /\ Occupied(arena_map, kown[t])
    /\ LET r == as_ref(kown[t], arena_map[kown[t]], heap) IN
       /\ ret' = [ret EXCEPT ![t] = Ret("existing", r)]
       /\ held' = [held EXCEPT ![t] = @ \cup {r}]
       /\ stored' = [stored EXCEPT ![r.key] = @ \cup {r.addr}]
    /\ writer' = NoThread
    /\ kown' = [kown EXCEPT ![t] = NoKey]
    /\ pc' = [pc EXCEPT ![t] = "idle"]
    /\ UNCHANGED <<alive, arena_map, heap, cleared, poisoned, readers, op, key,
                   val, had, nprov>>

\* lines 133-134 / 153-154, Entry::Vacant: the closure is called with &key,
\* which calls the provider; the write guard stays alive
EntryVacant(t) ==
    /\ pc[t] = "entry"
    /\ ~Occupied(arena_map, kown[t])
    /\ nprov' = [nprov EXCEPT ![t] = @ + 1]
    /\ pc' = [pc EXCEPT ![t] = "provider"]
    /\ UNCHANGED <<shared, poisoned, readers, writer, op, key, kown, val, ret,
                   held, had>>

\* lines 134 / 154: the provider returns v
ProviderReturn(t, v) ==
    /\ pc[t] = "provider"
    /\ val' = [val EXCEPT ![t] = v]
    /\ pc' = [pc EXCEPT ![t] = "boxing"]
    /\ UNCHANGED <<shared, poisoned, readers, writer, op, key, kown, ret, held,
                   had, nprov>>

\* the table after a provider panic unwinds out of or_insert_with_key
UnwindEntryKept(m, k) == [m EXCEPT ![k] = CHOOSE a \in Addrs : TRUE]
UnwindEntry(m, k) == m

\* lines 134 / 154: the provider panics; unwinding drops the vacant entry and
\* the write guard, which poisons the lock; the panic reaches the caller
ProviderPanic(t) ==
    /\ pc[t] = "provider"
    /\ arena_map' = UnwindEntry(arena_map, kown[t])
    /\ poisoned' = TRUE
    /\ writer' = NoThread
    /\ ret' = [ret EXCEPT ![t] = Ret("panic", NoRef)]
    /\ kown' = [kown EXCEPT ![t] = NoKey]
    /\ pc' = [pc EXCEPT ![t] = "idle"]
    /\ UNCHANGED <<alive, heap, stored, cleared, readers, op, key, val, held,
                   had, nprov>>

\* HashMap insert of box a under key k
InsertEntryEvict(m, k, a) == [j \in DOMAIN m |-> IF j = k THEN a ELSE NoPtr]
InsertEntry(m, k, a) == [m EXCEPT ![k] = a]

\* the value PinBox::new(Box::new(v)) puts on the heap
BoxedDefault(v) == 1
Boxed(v) == v

\* lines 135-138 / 155-158: PinBox::new(Box::new(v)) at a free address, the
\* entry is filled (a PinBox it replaces is dropped), the reference into the
\* new box is returned and the write guard dropped
Insert(t) ==
    /\ pc[t] = "boxing"
    /\ \E a \in Addrs :
         /\ heap[a] = Free
         /\ LET old == arena_map[kown[t]]
                h1 == [heap EXCEPT ![a] = Boxed(val[t])]
                h2 == IF old # NoPtr THEN [h1 EXCEPT ![old] = Free] ELSE h1
                r == as_ref(kown[t], a, h2)
            IN
            /\ heap' = h2
            /\ arena_map' = InsertEntry(arena_map, kown[t], a)
            /\ ret' = [ret EXCEPT ![t] = Ret("inserted", r)]
            /\ held' = [held EXCEPT ![t] = @ \cup {r}]
            /\ stored' = [stored EXCEPT ![kown[t]] = @ \cup {a}]
    /\ cleared' = cleared \ {kown[t]}
    /\ writer' = NoThread
    /\ kown' = [kown EXCEPT ![t] = NoKey]
    /\ val' = [val EXCEPT ![t] = Free]
    /\ pc' = [pc EXCEPT ![t] = "idle"]
    /\ UNCHANGED <<alive, poisoned, readers, op, key, had, nprov>>

\* the caller's borrows of &self end: it lets go of the references and results
\* it got from its calls, and of the arguments of its last call
Forget(t) ==
    /\ pc[t] = "idle"
    /\ held[t] # {} \/ ret[t] # NoRet
    /\ held' = [held EXCEPT ![t] = {}]
    /\ ret' = [ret EXCEPT ![t] = NoRet]
    /\ had' = [had EXCEPT ![t] = NoRef]
    /\ nprov' = [nprov EXCEPT ![t] = 0]
    /\ op' = [op EXCEPT ![t] = "get"]
    /\ key' = [key EXCEPT ![t] = 1]
    /\ UNCHANGED <<shared, poisoned, readers, writer, pc, kown, val>>

\* &mut self (line 95) and dropping the cache: the borrow checker admits them
\* only when no &self borrow is alive: no call in progress, no reference held
ExclusiveShared == \A t \in Threads : pc[t] = "idle"
Exclusive == \A t \in Threads : pc[t] = "idle" /\ held[t] = {}

\* Drop for PinBox, lines 184-188: the boxes of the table m are freed
DropAllLeak(m, h) == h
DropAll(m, h) ==
    [a \in DOMAIN h |-> IF \E k \in DOMAIN m : m[k] = a THEN Free ELSE h[a]]

\* HashCache::clear, lines 95-102: HashMap::clear drops every PinBox
clear ==
    /\ alive
    /\ Exclusive
    /\ IF get_mut(poisoned) = "guard"
       THEN /\ heap' = DropAll(arena_map, heap)
            /\ arena_map' = [k \in OwnedKeys |-> NoPtr]
            /\ stored' = [k \in OwnedKeys |-> {}]
            /\ cleared' = {k \in OwnedKeys : arena_map[k] # NoPtr}
       ELSE UNCHANGED <<heap, arena_map, stored, cleared>>
    /\ UNCHANGED <<alive, poisoned, readers, writer, pc, op, key, kown, val,
                   ret, held, had, nprov>>

\* the cache goes out of scope: the HashMap field (line 15) drops every PinBox
DropCache ==
    /\ alive
    /\ Exclusive
    /\ alive' = FALSE
    /\ heap' = DropAll(arena_map, heap)
    /\ arena_map' = [k \in OwnedKeys |-> NoPtr]
    /\ UNCHANGED <<stored, cleared, poisoned, readers, writer, pc, op, key,
                   kown, val, ret, held, had, nprov>>

Next ==
    \/ \E t \in Threads, o \in Ops, q \in BorrowedKeys : Call(t, o, q)
    \/ \E t \in Threads : AcquireRead(t)
    \/ \E t \in Threads : Hit(t)
    \/ \E t \in Threads : GetMiss(t)
    \/ \E t \in Threads : InsertMiss(t)
    \/ \E t \in Threads : AcquireWrite(t)
    \/ \E t \in Threads : EntryOccupied(t)
    \/ \E t \in Threads : EntryVacant(t)
    \/ \E t \in Threads, v \in Values : ProviderReturn(t, v)
    \/ \E t \in Threads : ProviderPanic(t)
    \/ \E t \in Threads : Insert(t)
    \/ \E t \in Threads : Forget(t)
    \/ clear
    \/ DropCache

Spec == Init /\ [][Next]_vars

\* ------------------------------------------------------------------ claims

\* the steps a thread takes inside an operation
ThreadStep(t) ==
    \/ AcquireRead(t) \/ Hit(t) \/ GetMiss(t) \/ InsertMiss(t)
    \/ AcquireWrite(t) \/ EntryOccupied(t) \/ EntryVacant(t)
    \/ (\E v \in Values : ProviderReturn(t, v)) \/ ProviderPanic(t)
    \/ Insert(t)

HoldsLock(t) == writer = t \/ t \in readers

\* C1 (Stability): every reference a caller still holds designates a box that
\* is still allocated at the address it was returned with, still holds the
\* value it had when it was returned, and is still the box the table stores
\* under its key, whatever other calls ran in between.
Stability ==
    \A t \in Threads : \A r \in held[t] :
        /\ heap[r.addr] # Free
        /\ heap[r.addr] = r.val
        /\ MapGet(arena_map, Borrow(r.key)) = r.addr

\* a thread holds a reference to one key, saw another key absent afterwards,
\* and that other key has been inserted since
StabilityWitness ==
    \E t \in Threads : \E r \in held[t] :
        /\ pc[t] = "idle"
        /\ ret[t].kind = "absent"
        /\ to_owned(key[t]) # r.key
        /\ arena_map[to_owned(key[t])] # NoPtr
        /\ heap[r.addr] = r.val

\* C2 (Single-writer-wins): between clears at most one box is ever stored or
\* returned for a key, it is the box the table holds, and all references that
\* calls returned for one key are the same reference.
SingleWriterWins ==
    /\ \A k \in OwnedKeys :
         /\ Cardinality(stored[k]) <= 1
         /\ arena_map[k] # NoPtr => stored[k] \subseteq {arena_map[k]}
    /\ \A t1, t2 \in Threads :
         (ret[t1].ref # NoRef /\ ret[t1].ref.key = ret[t2].ref.key)
            => /\ ret[t1].ref = ret[t2].ref
               /\ arena_map[ret[t1].ref.key] = ret[t1].ref.addr

\* two get_or_insert(_with) calls raced for one absent key: one inserted, the
\* other found the entry under the write lock, and both hold the same box
SingleWriterWinsWitness ==
    \E t1, t2 \in Threads :
        /\ t1 # t2
        /\ pc[t1] = "idle" /\ pc[t2] = "idle"
        /\ op[t1] \in InsertOps /\ op[t2] \in InsertOps
        /\ key[t1] = key[t2]
        /\ ret[t1].kind = "inserted"
        /\ ret[t2].kind = "existing"
        /\ ret[t1].ref = ret[t2].ref
        /\ stored[ret[t1].ref.key] = {ret[t1].ref.addr}

\* C3 (Clear invalidation): a step that removes an entry from the table is
\* taken only when no thread is inside a call and no reference is held; it
\* empties the table and leaves no box allocated; a key emptied by clear stays
\* absent until it is inserted again, and a get of it returns absent.
ClearInvalidation ==
    /\ [](\A k \in cleared : MapGet(arena_map, Borrow(k)) = NoPtr)
    /\ [][ /\ (\E k \in OwnedKeys : arena_map[k] # NoPtr /\ arena_map'[k] = NoPtr)
              => /\ \A t \in Threads : pc[t] = "idle" /\ held[t] = {}
                 /\ \A k \in OwnedKeys : arena_map'[k] = NoPtr
                 /\ \A a \in Addrs : heap'[a] = Free
           /\ \A t \in Threads :
                (/\ op[t] = "get" /\ pc[t] = "reading" /\ pc'[t] = "idle"
                 /\ to_owned(key[t]) \in cleared)
                   => ret'[t].kind = "absent" ]_vars

\* one key was in the table, clear emptied it, and afterwards every thread
\* looked it up and got absent
ClearInvalidationWitness ==
    /\ alive
    /\ \A a \in Addrs : heap[a] = Free
    /\ \E k \in OwnedKeys :
         /\ cleared = {k}
         /\ \A t \in Threads :
              /\ pc[t] = "idle" /\ op[t] = "get" /\ key[t] = Borrow(k)
              /\ ret[t].kind = "absent"

\* C4 (Provider failure): a provider panic reaches the caller, the call that
\* panicked has changed neither the table nor the heap at any of its steps,
\* its key is absent afterwards, and a later call that finds the key vacant
\* under the write lock invokes its provider and stores the result.
ProviderFailure ==
    [][ \A t \in Threads :
          /\ (pc[t] # pc'[t] /\ pc[t] \notin {"idle", "boxing"})
                => arena_map' = arena_map /\ heap' = heap
          /\ (pc[t] = "provider" /\ pc'[t] = "idle")
                => /\ ret'[t].kind = "panic"
                   /\ held'[t] = held[t]
                   /\ MapGet(arena_map', key[t]) = NoPtr
          /\ (pc[t] = "entry" /\ pc'[t] # "entry"
                /\ MapGet(arena_map, key[t]) = NoPtr)
                => pc'[t] = "provider" /\ nprov'[t] = 1
          /\ (pc[t] = "boxing" /\ pc'[t] = "idle")
                => /\ MapGet(arena_map', key[t]) # NoPtr
                   /\ heap'[MapGet(arena_map', key[t])] = val[t] ]_vars

\* a provider panicked for a key and a later call inserted that key
ProviderFailureWitness ==
    \E t1, t2 \in Threads :
        /\ pc[t1] = "idle" /\ pc[t2] = "idle"
        /\ ret[t1].kind = "panic"
        /\ ret[t2].kind = "inserted"
        /\ key[t1] = key[t2]
        /\ arena_map[to_owned(key[t2])] = ret[t2].ref.addr

\* C5 (Poisoned-lock tolerance): a provider panic releases the write lock and
\* poisons it; no operation ever returns a poison error; on a poisoned lock
\* the acquisitions and clear proceed exactly as on a clean one.
PoisonTolerated ==
    /\ [](\A t \in Threads : ret[t].kind # "poison")
    /\ [][ /\ \A t \in Threads :
                /\ (pc[t] = "provider" /\ pc'[t] = "idle")
                      => writer = t /\ writer' = NoThread /\ poisoned'
                /\ (pc[t] = "rdlock" /\ pc'[t] # "rdlock")
                      => pc'[t] = "reading" /\ t \in readers'
                /\ (pc[t] = "wrlock" /\ pc'[t] # "wrlock")
                      => pc'[t] = "entry" /\ writer' = t
           /\ (poisoned /\ clear) => \A k \in OwnedKeys : arena_map'[k] = NoPtr
           /\ poisoned => poisoned' ]_vars

\* after a provider panicked for a key (poisoning the lock) the key was
\* inserted and another call hit it
PoisonToleratedWitness ==
    /\ poisoned
    /\ \E t1, t2 \in Threads :
        /\ pc[t1] = "idle" /\ pc[t2] = "idle"
        /\ ret[t1].kind = "panic"
        /\ ret[t2].kind = "hit"
        /\ key[t1] = key[t2]

\* whenever some thread is inside an operation, some thread inside an
\* operation can take a step
NoDeadlock ==
    (\E t \in Threads : pc[t] # "idle")
        => \E t \in Threads : pc[t] # "idle" /\ ENABLED ThreadStep(t)

\* every started operation returns
Completion == \A t \in Threads : (pc[t] # "idle") ~> (pc[t] = "idle")

NoLockInProvider ==
    \A t \in Threads :
        /\ pc[t] \in {"rdlock", "wrlock"} => ~HoldsLock(t)
        /\ pc[t] = "provider" => ~HoldsLock(t)

\* C7 as amended: a thread waiting for the lock holds none (no recursive
\* acquisition), and a thread executing a provider holds the write lock, and
\* nobody holds the read lock.
WriteLockInProvider ==
    \A t \in Threads :
        /\ pc[t] \in {"rdlock", "wrlock"} => ~HoldsLock(t)
        /\ pc[t] = "provider" => writer = t /\ readers = {}

\* a thread is executing its provider
WriteLockInProviderWitness ==
    \E t \in Threads : pc[t] = "provider" /\ writer = t /\ nprov[t] = 1

\* C8 (Idempotent hit): a get_or_insert(_with) made by a caller that still
\* holds the reference an earlier call returned for the same key never takes
\* the write lock and never invokes a provider, the table still stores that
\* box, and the call returns from its read-locked lookup with the identical
\* reference.
IdempotentHit ==
    \A t \in Threads :
        (op[t] \in InsertOps /\ had[t] # NoRef)
            => /\ pc[t] \in {"idle", "rdlock", "reading"}
               /\ writer # t
               /\ nprov[t] = 0
               /\ arena_map[had[t].key] = had[t].addr
               /\ pc[t] = "idle" => ret[t] = Ret("hit", had[t])

\* a second get_or_insert(_with) for a key returned the reference of the
\* first, with another key in the table as well
IdempotentHitWitness ==
    \E t \in Threads :
        /\ pc[t] = "idle"
        /\ op[t] \in InsertOps
        /\ had[t] # NoRef
        /\ ret[t] = Ret("hit", had[t])
        /\ \E k \in OwnedKeys : k # had[t].key /\ arena_map[k] # NoPtr

\* C9 (No cross-key interference): no step of a get_or_insert(_with) call
\* for a key changes the entry or the box of any other key, nor replaces an
\* entry its own key already has, and every reference held to another key
\* reads the same value at the same address afterwards.
NoCrossKeyInterference ==
    [][ \A t \in Threads :
          (op[t] \in InsertOps /\ pc[t] \notin {"idle"} /\ pc'[t] # pc[t])
            => /\ \A k \in OwnedKeys :
                    (k # to_owned(key[t]) \/ arena_map[k] # NoPtr)
                      => /\ arena_map'[k] = arena_map[k]
                         /\ arena_map[k] # NoPtr
                              => heap'[arena_map[k]] = heap[arena_map[k]]
               /\ \A u \in Threads : \A r \in held[u] :
                    r.key # to_owned(key[t]) => heap'[r.addr] = r.val ]_vars

\* a thread holds the reference to one key, saw a second key absent, and then
\* another thread inserted the second key with a different value
NoCrossKeyInterferenceWitness ==
    \E t1, t2 \in Threads : \E r \in held[t1] :
        /\ t1 # t2
        /\ ret[t1].kind = "absent"
        /\ ret[t2].kind = "inserted"
        /\ to_owned(key[t1]) = ret[t2].ref.key
        /\ r.key # ret[t2].ref.key
        /\ heap[r.addr] = r.val
        /\ r.val # ret[t2].ref.val

\* C10 (Result of get_or_insert): a normal return of get_or_insert(_with)
\* yields the reference to the box the table stores under the key at that
\* moment; on a true miss the provider was invoked once, with the owned key,
\* and its result is the stored value; a get of a key for which anyone holds
\* a reference returns that same reference.
InsertResult ==
    /\ [](\A t \in Threads :
            pc[t] \in {"provider", "boxing"}
                => nprov[t] = 1 /\ kown[t] = to_owned(key[t]))
    /\ [][ \A t \in Threads :
          /\ (/\ op[t] \in InsertOps /\ pc[t] # "idle" /\ pc'[t] = "idle"
              /\ ret'[t].kind \notin {"panic", "poison"})
               => /\ ret'[t].ref.key = to_owned(key[t])
                  /\ ret'[t].ref.addr = MapGet(arena_map', key[t])
                  /\ ret'[t].ref.addr # NoPtr
                  /\ ret'[t].ref.val = heap'[ret'[t].ref.addr]
                  /\ ret'[t].ref \in held'[t]
                  /\ pc[t] = "boxing"
                       => /\ nprov'[t] = 1
                          /\ ret'[t].ref.val = val[t]
                          /\ ret'[t].kind = "inserted"
          /\ (op[t] = "get" /\ pc[t] = "reading" /\ pc'[t] = "idle")
               => \A u \in Threads : \A r \in held[u] :
                     r.key = to_owned(key[t]) => ret'[t] = Ret("hit", r) ]_vars

\* one thread inserted a key and a get by another thread returned the same
\* reference
InsertResultWitness ==
    \E t1, t2 \in Threads :
        /\ t1 # t2
        /\ pc[t1] = "idle" /\ pc[t2] = "idle"
        /\ ret[t1].kind = "inserted"
        /\ op[t2] = "get"
        /\ ret[t2].kind = "hit"
        /\ ret[t2].ref = ret[t1].ref

\* -------------------------------------------------------------- fairness
\* The lock is granted fairly (a waiting thread that can be granted the lock
\* again and again gets it), a thread inside an operation keeps running, and
\* a provider terminates (by returning or by panicking).
Fairness ==
    \A t \in Threads :
        /\ SF_vars(AcquireRead(t))
        /\ SF_vars(AcquireWrite(t))
        /\ WF_vars(Hit(t) \/ GetMiss(t) \/ InsertMiss(t))
        /\ WF_vars(EntryOccupied(t) \/ EntryVacant(t))
        /\ WF_vars((\E v \in Values : ProviderReturn(t, v)) \/ ProviderPanic(t))
        /\ WF_vars(Insert(t))

FairSpec == Spec /\ Fairness

\* ------------------------------------------------- claims, second part

\* C11 (Per-key monotonicity): the table is empty at construction, and a key
\* that is present keeps its box, and the box its value, at every step, except
\* at a step taken with exclusive access that empties the whole table (clear
\* or the drop of the cache).
PerKeyMonotone ==
    /\ \A k \in OwnedKeys : arena_map[k] = NoPtr
    /\ [][ \A k \in OwnedKeys :
             arena_map[k] # NoPtr
               => \/ /\ arena_map'[k] = arena_map[k]
                     /\ heap'[arena_map[k]] = heap[arena_map[k]]
                     /\ heap[arena_map[k]] # Free
                  \/ /\ \A t \in Threads : pc[t] = "idle" /\ held[t] = {}
                     /\ \A j \in OwnedKeys : arena_map'[j] = NoPtr ]_vars

\* a key was inserted, then get and get_or_insert(_with) calls (one of them
\* on the second key, which inserted it) ran, and the first box is still there
PerKeyMonotoneWitness ==
    \E t1, t2 \in Threads : \E r \in held[t1] :
        /\ t1 # t2
        /\ pc[t1] = "idle" /\ pc[t2] = "idle"
        /\ ret[t1].kind = "inserted"
        /\ ret[t1].ref.key # r.key
        /\ arena_map[r.key] = r.addr
        /\ heap[r.addr] = r.val
        /\ ret[t2] = Ret("hit", r)

\* C12 (get has no side effect): no step of a get call changes the table or
\* the heap; a thread inside get never holds the write lock and has invoked
\* no provider; get returns the reference to the stored box when the key is
\* in the table while it holds the read lock, and absent when it is not.
GetIsPure ==
    /\ [](\A t \in Threads :
            op[t] = "get"
              => /\ pc[t] \in {"idle", "rdlock", "reading"}
                 /\ writer # t
                 /\ nprov[t] = 0
                 /\ kown[t] = NoKey)
    /\ [][ \A t \in Threads :
             /\ (op[t] = "get" /\ pc[t] # "idle" /\ pc'[t] # pc[t])
                  => arena_map' = arena_map /\ heap' = heap
             /\ (op[t] = "get" /\ pc[t] = "reading" /\ pc'[t] = "idle")
                  => /\ t \in readers
                     /\ arena_map[to_owned(key[t])] # NoPtr
                          => ret'[t] = Ret("hit",
                                 [key |-> to_owned(key[t]),
                                  addr |-> arena_map[to_owned(key[t])],
                                  val |-> heap[arena_map[to_owned(key[t])]]])
                     /\ arena_map[to_owned(key[t])] = NoPtr
                          => ret'[t] = Ret("absent", NoRef) ]_vars

\* one get returned absent for a key that is not in the table and another get
\* returned the box of a key that is
GetIsPureWitness ==
    \E t1, t2 \in Threads :
        /\ pc[t1] = "idle" /\ pc[t2] = "idle"
        /\ op[t1] = "get" /\ op[t2] = "get"
        /\ ret[t1].kind = "absent"
        /\ arena_map[to_owned(key[t1])] = NoPtr
        /\ ret[t2].kind = "hit"
        /\ arena_map[ret[t2].ref.key] = ret[t2].ref.addr

\* threads inside the write-locked section (lines 132-138 / 152-158)
InWrite == {t \in Threads : pc[t] \in {"entry", "provider", "boxing"}}
\* threads inside the read-locked section (lines 115-118)
InRead == {t \in Threads : pc[t] = "reading"}

\* C13 (Reader/writer exclusion): at most one thread is inside the
\* write-locked section, and while one is, no thread is inside the read-locked
\* section; the guards held are exactly those of the threads in the sections.
ReaderWriterExclusion ==
    /\ Cardinality(InWrite) <= 1
    /\ InWrite # {} => InRead = {}
    /\ InRead = readers
    /\ InWrite = {writer} \ {NoThread}

\* two get calls hold the read lock at the same time
ReaderWriterExclusionWitness ==
    \E t1, t2 \in Threads :
        /\ t1 # t2
        /\ op[t1] = "get" /\ op[t2] = "get"
        /\ {t1, t2} \subseteq readers
        /\ pc[t1] = "reading" /\ pc[t2] = "reading"

\* C14 (Lost-race re-check): a get_or_insert(_with) that missed its key on
\* the read-locked lookup and finds it in the table once it holds the write
\* lock returns the reference to the existing box, changes neither table nor
\* heap, has invoked no provider and so has produced no value of its own.
LostRaceRecheck ==
    [][ \A t \in Threads :
          (pc[t] = "entry" /\ arena_map[kown[t]] # NoPtr /\ pc'[t] # "entry")
            => /\ pc'[t] = "idle"
               /\ ret'[t] = Ret("existing",
                                [key |-> kown[t], addr |-> arena_map[kown[t]],
                                 val |-> heap[arena_map[kown[t]]]])
               /\ arena_map' = arena_map
               /\ heap' = heap
               /\ nprov'[t] = 0
               /\ val'[t] = Free
               /\ writer' = NoThread ]_vars

\* a call lost the race: it returned the existing box without a provider call
\* while the winner still holds the same reference
LostRaceRecheckWitness ==
    \E t1, t2 \in Threads :
        /\ t1 # t2
        /\ pc[t2] = "idle"
        /\ ret[t2].kind = "existing"
        /\ nprov[t2] = 0
        /\ ret[t2].ref \in held[t1]
        /\ nprov[t1] = 1

LockScope ==
    /\ [](\A t \in Threads :
            /\ pc[t] \in {"idle", "rdlock", "wrlock"} => ~HoldsLock(t)
            /\ t \in readers => pc[t] = "reading" /\ writer # t
            /\ writer = t
                 => /\ pc[t] \in {"entry", "provider", "boxing"}
                    /\ op[t] \in InsertOps
                    /\ kown[t] = to_owned(key[t])
            /\ op[t] = "get" => writer # t)
    /\ [][ \A t \in Threads :
             /\ (pc[t] # "idle" /\ pc'[t] = "idle") => ~HoldsLock(t)'
             /\ (pc[t] # "idle" /\ ret'[t].kind \in {"hit", "absent"})
                  => /\ pc[t] = "reading"
                     /\ t \in readers
                     /\ writer = NoThread
                     /\ nprov[t] = 0 ]_vars

\* after a provider panic poisoned the lock, one thread is back from a hit and
\* holds a reference and no lock while another thread holds the write lock
LockScopeWitness ==
    \E t1, t2 \in Threads :
        /\ t1 # t2
        /\ pc[t1] = "idle"
        /\ ret[t1].kind = "hit"
        /\ held[t1] # {}
        /\ poisoned
        /\ ~HoldsLock(t1)
        /\ writer = t2

\* C18 (each value is destroyed exactly once): every allocated box is owned
\* by exactly one table entry and every entry owns an allocated box, so the
\* drops of the entries free each box once; a box is allocated only by an
\* insert, which stores it in the table, and freed only by a step taken with
\* exclusive access (clear or the drop of the cache) that frees every box at
\* once; no held reference designates a freed box, and after the drop of the
\* cache no box is allocated.
DestroyedOnce ==
    /\ [](/\ \A a \in Addrs :
               heap[a] # Free
                 <=> Cardinality({k \in OwnedKeys : arena_map[k] = a}) = 1
          /\ \A k \in OwnedKeys :
               arena_map[k] # NoPtr => heap[arena_map[k]] # Free
          /\ \A t \in Threads : \A r \in held[t] : heap[r.addr] # Free
          /\ ~alive => \A a \in Addrs : heap[a] = Free)
    /\ [][ \A a \in Addrs :
             /\ (heap[a] # Free /\ heap'[a] = Free)
                  => /\ \A t \in Threads : pc[t] = "idle" /\ held[t] = {}
                     /\ \A b \in Addrs : heap'[b] = Free
                     /\ \A k \in OwnedKeys : arena_map'[k] = NoPtr
             /\ (heap[a] = Free /\ heap'[a] # Free)
                  => \E t \in Threads :
                       /\ pc[t] = "boxing" /\ pc'[t] = "idle"
                       /\ arena_map[kown[t]] = NoPtr
                       /\ arena_map'[kown[t]] = a
                       /\ heap'[a] = val[t] ]_vars

\* the cache was dropped after inserts, a provider panic and a clear, and
\* boxes stored since the clear were freed by the drop
DestroyedOnceWitness ==
    /\ ~alive
    /\ poisoned
    /\ cleared # {}
    /\ \E k \in OwnedKeys : stored[k] # {}
    /\ \A a \in Addrs : heap[a] = Free

\* C19 as stated (conversion only on true insertion): a call that returns an
\* entry that already existed has not converted its key to the owned form.
ConversionOnlyOnInsert ==
    [][ \A t \in Threads :
          (pc[t] # "idle" /\ pc'[t] = "idle"
             /\ ret'[t].kind \in {"hit", "existing"})
            => kown[t] = NoKey ]_vars

\* C19 (the key is converted on every read-locked miss): a call owns a
\* converted key exactly from its read-locked miss until it returns; the
\* conversion is made by get_or_insert(_with) when its read-locked lookup
\* found the key absent, and never on the hit path; the call then ends by
\* inserting under that key, by returning the entry another thread inserted
\* in the meantime (exactly when the key is present at the write-locked
\* re-check), or with the provider's panic.
ConversionOnMiss ==
    /\ [](\A t \in Threads :
            /\ kown[t] # NoKey
                 <=> pc[t] \in {"wrlock", "entry", "provider", "boxing"}
            /\ kown[t] # NoKey
                 => kown[t] = to_owned(key[t]) /\ op[t] \in InsertOps)
    /\ [][ \A t \in Threads :
             /\ (kown[t] = NoKey /\ kown'[t] # NoKey)
                  => /\ pc[t] = "reading"
                     /\ t \in readers
                     /\ arena_map[to_owned(key[t])] = NoPtr
                     /\ kown'[t] = to_owned(key[t])
             /\ (pc[t] # "idle" /\ ret'[t].kind = "hit") => kown[t] = NoKey
             /\ (kown[t] # NoKey /\ kown'[t] = NoKey)
                  => /\ ret'[t].kind \in {"inserted", "existing", "panic"}
                     /\ ret'[t].kind = "existing" <=> pc[t] = "entry"
                     /\ pc[t] = "entry" => arena_map[kown[t]] # NoPtr
                     /\ ret'[t].kind # "panic" => ret'[t].ref.key = kown[t] ]_vars

\* a call converted its key and holds the write lock, and the key is already
\* in the table: it is about to return the existing entry
ConversionOnMissWitness ==
    \E t \in Threads :
        /\ pc[t] = "entry"
        /\ kown[t] = to_owned(key[t])
        /\ arena_map[kown[t]] # NoPtr
        /\ nprov[t] = 0

\* ------------------------------------------------ reentrant providers

\* lines 134 / 154: the provider calls get, get_or_insert or
\* get_or_insert_with on the same cache; each of them starts with get, whose
\* line 115 calls self.arena(), i.e. RwLock::read, on the thread that holds
\* the write guard of line 132 / 152
ProviderReenters(t) ==
    /\ pc[t] = "provider"
    /\ pc' = [pc EXCEPT ![t] = "inner"]
    /\ UNCHANGED <<shared, poisoned, readers, writer, op, key, kown, val, ret,
                   held, had, nprov>>

\* RwLock::read on a lock the calling thread already holds is not granted: it
\* blocks for ever (no step) or panics, depending on the platform's lock. The
\* panic unwinds through the provider and through or_insert_with_key as a
\* provider panic does: the entry stays vacant, the write guard is dropped and
\* poisons the lock, the panic reaches the caller of the outer call.
InnerPanic(t) ==
    /\ pc[t] = "inner"
    /\ ~CanRead(writer, readers)
    /\ arena_map' = UnwindEntry(arena_map, kown[t])
    /\ poisoned' = TRUE
    /\ writer' = NoThread
    /\ ret' = [ret EXCEPT ![t] = Ret("panic", NoRef)]
    /\ kown' = [kown EXCEPT ![t] = NoKey]
    /\ pc' = [pc EXCEPT ![t] = "idle"]
    /\ UNCHANGED <<alive, heap, stored, cleared, readers, op, key, val, held,
                   had, nprov>>

NextReentrant ==
    \/ Next
    \/ \E t \in Threads : ProviderReenters(t)
    \/ \E t \in Threads : InnerPanic(t)

SpecReentrant == Init /\ [][NextReentrant]_vars

\* C20 as stated (a reentrant provider wedges the cache for ever): once the
\* provider has called back into the cache the outer call never ends and the
\* write lock is never released.
ReentrantNeverEnds ==
    [][ \A t \in Threads :
          pc[t] = "inner" => pc'[t] = "inner" /\ writer' = t ]_vars

\* C20 (a reentrant provider blocks or panics): while a provider's call back
\* into the cache is pending, its thread holds the write lock, the inner call
\* cannot be granted the lock, no other thread holds or can acquire the lock,
\* and table and heap do not change; the inner call never acquires the lock:
\* the only way out is a panic, which ends the outer call with that panic,
\* leaves the table as it was, poisons and releases the lock.
ReentrantBlocked ==
    /\ [](\A t \in Threads :
            pc[t] = "inner"
              => /\ writer = t
                 /\ readers = {}
                 /\ ~CanRead(writer, readers)
                 /\ ~CanWrite(writer, readers)
                 /\ arena_map[kown[t]] = NoPtr
                 /\ \A u \in Threads \ {t} :
                      /\ ~HoldsLock(u)
                      /\ ~ ENABLED AcquireRead(u)
                      /\ ~ ENABLED AcquireWrite(u)
                      /\ pc[u] \in {"idle", "rdlock", "wrlock"})
    /\ [][ \A t \in Threads :
             pc[t] = "inner"
               => /\ arena_map' = arena_map
                  /\ heap' = heap
                  /\ readers' = {}
                  /\ \/ pc'[t] = "inner" /\ writer' = t
                     \/ /\ pc'[t] = "idle"
                        /\ ret'[t] = Ret("panic", NoRef)
                        /\ poisoned'
                        /\ writer' = NoThread ]_vars

\* a provider called back into the cache while one thread waits for the read
\* lock in get and the lock is already poisoned by an earlier panic
ReentrantBlockedWitness ==
    \E t, u \in Threads :
        /\ t # u
        /\ pc[t] = "inner"
        /\ writer = t
        /\ op[u] = "get"
        /\ pc[u] = "rdlock"
        /\ poisoned

====
